---- MODULE Spec2Model ----
(***************************************************************************)
(* Model of owllama's interactive chat session engine.                     *)
(*                                                                         *)
(* Two variants of the program exist in the repository: src/owllama.go     *)
(* (the chat loop inlined in main) and src/unnamed/part_000 (the chat loop *)
(* in handleChat, with its helpers ollamaChatAPI, filterQwenThink,         *)
(* loadChatHistory, saveChatHistory).  The variable `variant` selects      *)
(* which of the two is running.                                            *)
(*                                                                         *)
(* Text is modelled as a sequence of one-character strings, so that Go's   *)
(* byte-index arithmetic (strings.Index, slicing) is computed as written.  *)
(*                                                                         *)
(* Six specifications share the variables: Spec (the chat command),        *)
(* FilterSpec (filterQwenThink on one text), FilterLoopSpec (the same      *)
(* function run one loop pass at a time), DecodeSpec (the response decoder *)
(* on one body), HistorySpec (history list and history view) and           *)
(* SpinnerSpec (the progress indicator goroutine of src/owllama.go).       *)
(***************************************************************************)
EXTENDS Integers, Sequences, FiniteSets, TLC

VARIABLES
    \* ---- think-block filter applied to one input (FilterSpec)
    fModel,         \* the model identifier handed to the filter
    fInput,         \* the text handed to the filter
    fOut,           \* the text the filter returned
    fPc,            \* "call" before the filter ran, "done" after;
                    \* "enter", "loop", "done" when it runs step by step
    fText,          \* the variable text of the filter, one loop pass at a time
    fIter,          \* passes of the loop that removed a block
    \* ---- response decoder applied to one body (DecodeSpec)
    dBody,          \* the response body: a sequence of lines
    dOut,           \* the decoded reply text
    dPc,            \* "call" before the decoder ran, "done" after
    \* ---- the chat command (Spec): the program's state
    variant,        \* "main" (src/owllama.go) or "handleChat" (src/unnamed/part_000)
    model,          \* os.Args[2], or "gemma3"
    pc,             \* "Start", "AwaitingInput", "Processing", "Terminated"
    historyFile,    \* owllama_chat_history.json: [status, sessions]
    chatHistory,    \* chatHistory.Sessions
    sessionKey,     \* session.SessionKey
    session,        \* session.Messages, the transcript
    messages,       \* messages, the Context sent to the server
    prompt,         \* prompt of the current loop iteration (fullPrompt at first)
    readErr,        \* err of reader.ReadString: "nil", "EOF", "other"
    respBody,       \* the body of the last response read
    responseText,   \* the decoded reply of the last successful turn
    printText,      \* the text displayed for the last successful turn
    outcome,        \* of the last request: "none", "pending", "transport", "status", "ok"
    lastRequest,    \* the body of the last request: [model, messages]
    reported,       \* what the last step wrote to the user as an error, or "none"
    \* ---- the chat command: history of the run, for stating properties
    nInputs,        \* lines read by the loop so far
    nRequests,      \* requests issued so far
    nWrites,        \* times the history file was truncated and rewritten
    nOk,            \* successful turns so far
    okSince,        \* successful turns since the session start or the last /clear
    failSince,      \* failed turns since then
    searchSince,    \* search results added to the Context since then
    ctxEpoch,       \* for each Message of the Context, the value of epoch when it was added
    epoch,          \* the number of /clear commands so far
    fileAtStart,    \* the history file as the run found it
    nReads,         \* times the history file was opened and decoded
    \* ---- the history command (HistorySpec)
    args,           \* os.Args[2:], the arguments after "history"
    stdout,         \* the lines written to standard output
    stderr,         \* what was written to standard error, or "none"
    exitCode,       \* the status the process ended with; -1 while it runs
    kPc,            \* "call" before the command ran, "done" after
    \* ---- the progress indicator of src/owllama.go (SpinnerSpec)
    mainPc,         \* the loop: "AwaitingInput", "Processing", "Closed", "Exited"
    turn,           \* turns submitted so far; the goroutine of turn t is t
    spinnerDone,    \* for each turn, whether its spinnerDone is closed
    spinner,        \* for each turn, where its goroutine stands
    idx,            \* for each turn, idx of its goroutine, modulo the characters
    terminal,       \* the last thing written to the terminal
    resultShown,    \* for each turn, whether the loop has displayed its result
    lateWrites      \* <<turn, write>> of each goroutine write after that display

fvars == <<fModel, fInput, fOut, fPc, fText, fIter>>
dvars == <<dBody, dOut, dPc>>
cvars == <<variant, model, pc, historyFile, chatHistory, sessionKey, session,
           messages, prompt, readErr, respBody, responseText, printText,
           outcome, lastRequest, reported>>
hvars == <<nInputs, nRequests, nWrites, nOk, okSince, failSince, searchSince,
           ctxEpoch, epoch, fileAtStart, nReads>>
kvars == <<args, stdout, stderr, exitCode, kPc>>
svars == <<mainPc, turn, spinnerDone, spinner, idx, terminal, resultShown,
           lateWrites>>
vars == <<fvars, dvars, cvars, hvars, kvars, svars>>

----------------------------------------------------------------------------
(* Bounds of the model.                                                    *)

\* longest filter input, in pieces (a piece is a letter or a whole marker)
MaxPieces == 5
\* longest response body, in lines
MaxLines == 3
\* lines the chat loop reads before the input ends
MaxInputs == 3
\* sessions in a history file handed to the history command
MaxSessions == 2
\* longest first prompt of a listed session, in characters
MaxPromptChars == 41
\* turns submitted while the progress indicator is watched
MaxTurns == 2

----------------------------------------------------------------------------
(* Go string primitives, over sequences of characters.                     *)

\* s[a:b]
Slice(s, a, b) == SubSeq(s, a + 1, b)

\* strings.HasPrefix(s, prefix)
HasPrefix(s, prefix) ==
    /\ Len(prefix) <= Len(s)
    /\ Slice(s, 0, Len(prefix)) = prefix

\* strings.Index(s, substr): the 0-based index of the first occurrence, or -1
Index(s, substr) ==
    LET hits == {i \in 0..(Len(s) - Len(substr)) :
                    Slice(s, i, i + Len(substr)) = substr}
    IN  IF hits = {} THEN -1
        ELSE CHOOSE i \in hits : \A j \in hits : i <= j

\* strings.Contains(s, substr)
Contains(s, substr) == Index(s, substr) # -1

\* the characters strings.TrimSpace strips
IsSpace(c) == c \in {" ", "\n", "\t", "\r"}

RECURSIVE TrimLeft(_)
TrimLeft(s) ==
    IF s # <<>> /\ IsSpace(Head(s)) THEN TrimLeft(Tail(s)) ELSE s

RECURSIVE TrimRight(_)
TrimRight(s) ==
    IF s # <<>> /\ IsSpace(s[Len(s)])
    THEN TrimRight(SubSeq(s, 1, Len(s) - 1))
    ELSE s

\* strings.TrimSpace(s)
TrimSpace(s) == TrimRight(TrimLeft(s))

----------------------------------------------------------------------------
(* The think-block filter: filterQwenThink.                                *)

\* "qwen3", the marker of the reasoning-capable model family
Qwen3 == <<"q", "w", "e", "n", "3">>
\* "<think>"
ThinkStart == <<"<", "t", "h", "i", "n", "k", ">">>
\* "</think>"
ThinkEnd == <<"<", "/", "t", "h", "i", "n", "k", ">">>

\* the filter applies to this model: strings.Contains(model, "qwen3")
\* (faulty variant: the test left out)
AppliesAlways(m) == TRUE
AppliesTo(m) == Contains(m, Qwen3)

\* the loop's test: start != -1 && end != -1 && end > start
MatchedPair(start, end) == start # -1 /\ end # -1 /\ end > start

\* one removal: text[:start] + text[end+7:]
\* (faulty variant: the block is overwritten with blanks, nothing is cut out)
BlankBlock(text, start, end) ==
    Slice(text, 0, start)
        \o [i \in 1..(end + 7 - start) |-> " "]
        \o Slice(text, end + 7, Len(text))
RemoveBlock(text, start, end) ==
    Slice(text, 0, start) \o Slice(text, end + 7, Len(text))

\* break; return text: the text goes back as the loop left it
\* (faulty variant: a start marker left without its end marker is deleted)
UnmatchedStartDropped(text) ==
    IF Index(text, ThinkStart) # -1
    THEN Slice(text, 0, Index(text, ThinkStart))
             \o Slice(text, Index(text, ThinkStart) + Len(ThinkStart),
                      Len(text))
    ELSE text
AtBreak(text) == text


\* the for loop of the filter
RECURSIVE FilterLoop(_)
FilterLoop(text) ==
    LET start == Index(text, ThinkStart)
        end   == Index(text, ThinkEnd)
    IN  IF MatchedPair(start, end)
        THEN FilterLoop(RemoveBlock(text, start, end))
        ELSE AtBreak(text)

filterQwenThink(m, text) ==
    IF ~AppliesTo(m) THEN text ELSE FilterLoop(text)

----------------------------------------------------------------------------
(* The response decoder: the scan loop of ollamaChatAPI.                   *)
(*                                                                         *)
(* A body line is a record.  kind says what json.Unmarshal makes of it:    *)
(* "chunk" lines parse into apiResp (role, content, done); "malformed"     *)
(* and "empty" lines make json.Unmarshal return an error.  tooLong says    *)
(* the line is longer than bufio.MaxScanTokenSize (64 KiB), the largest    *)
(* token a bufio.Scanner built by bufio.NewScanner returns: on such a line *)
(* Scan() returns false (ErrTooLong) and the loop ends; the code never     *)
(* reads respScanner.Err().  Any line can be that long: JSON allows        *)
(* trailing blanks, and a malformed line is arbitrary.                     *)

ChunkLine(role, content, done, long) ==
    [kind |-> "chunk", role |-> role, content |-> content, done |-> done,
     tooLong |-> long]

MalformedLine(long) ==
    [kind |-> "malformed", role |-> "", content |-> <<>>, done |-> FALSE,
     tooLong |-> long]

EmptyLine ==
    [kind |-> "empty", role |-> "", content |-> <<>>, done |-> FALSE,
     tooLong |-> FALSE]

\* respScanner.Scan() yields the line
ScanYields(line) == ~line.tooLong

\* json.Unmarshal([]byte(line), &apiResp) returns an error
UnmarshalFails(line) == line.kind # "chunk"

\* if apiResp.Message.Role == "assistant" { responseText += Content }
Accumulate(acc, line) ==
    IF line.role = "assistant"
    THEN acc \o line.content
    ELSE acc

\* if apiResp.Done { break }
\* (faulty variant: no break)
DoneIgnored(line) == FALSE
BreaksOnDone(line) == line.done

\* what the loop does with a line json.Unmarshal rejected
AfterMalformed(body, i) == i + 1

\* the scan loop from line i on
RECURSIVE ScanFrom(_, _, _)
ScanFrom(body, i, acc) ==
    IF i > Len(body) THEN acc
    ELSE LET line == body[i] IN
         IF ~ScanYields(line) THEN acc
         ELSE IF UnmarshalFails(line)
              THEN ScanFrom(body, AfterMalformed(body, i), acc)
              ELSE LET acc2 == Accumulate(acc, line) IN
                   IF BreaksOnDone(line) THEN acc2
                   ELSE ScanFrom(body, i + 1, acc2)

\* var responseText string; for respScanner.Scan() { ... }
Decode(body) == ScanFrom(body, 1, <<>>)

----------------------------------------------------------------------------
(* FilterSpec: the filter applied to one model identifier and one text.    *)

\* all sequences over S of length at most n
SeqsUpTo(S, n) == UNION {[1..k -> S] : k \in 0..n}

RECURSIVE Flatten(_)
Flatten(ss) == IF ss = <<>> THEN <<>> ELSE Head(ss) \o Flatten(Tail(ss))

FilterPieces == {<<"A">>, <<">">>, ThinkStart, ThinkEnd}

\* "A<think>B</think>C"
ExampleText == <<"A">> \o ThinkStart \o <<"B">> \o ThinkEnd \o <<"C">>

FilterTexts ==
    {Flatten(ps) : ps \in SeqsUpTo(FilterPieces, MaxPieces)} \cup {ExampleText}

\* "gemma3", "qwen2", "qwen3", "qwen3:8b", "my-qwen3"
FilterModels ==
    { <<"g", "e", "m", "m", "a", "3">>,
      <<"q", "w", "e", "n", "2">>,
      Qwen3,
      Qwen3 \o <<":", "8", "b">>,
      <<"m", "y", "-">> \o Qwen3 }

FilterInit ==
    /\ fModel \in FilterModels
    /\ fInput \in FilterTexts
    /\ fOut = <<>>
    /\ fPc = "call"
    /\ fText = <<>>
    /\ fIter = 0

FilterIdle ==
    /\ fModel = Qwen3
    /\ fInput = <<>>
    /\ fOut = <<>>
    /\ fPc = "idle"
    /\ fText = <<>>
    /\ fIter = 0

ApplyFilter ==
    /\ fPc = "call"
    /\ fOut' = filterQwenThink(fModel, fInput)
    /\ fPc' = "done"
    /\ UNCHANGED <<fModel, fInput, fText, fIter>>
    /\ UNCHANGED <<dvars, cvars, hvars, kvars, svars>>

----------------------------------------------------------------------------
(* FilterLoopSpec: filterQwenThink run one pass of its loop at a time.     *)

FilterLoopInit ==
    /\ fModel \in FilterModels
    /\ fInput \in FilterTexts
    /\ fText = fInput
    /\ fOut = <<>>
    /\ fIter = 0
    /\ fPc = "enter"

\* if !strings.Contains(model, "qwen3") { return text }
FilterSkip ==
    /\ fPc = "enter"
    /\ ~AppliesTo(fModel)
    /\ fOut' = fText
    /\ fPc' = "done"
    /\ UNCHANGED <<fModel, fInput, fText, fIter>>
    /\ UNCHANGED <<dvars, cvars, hvars, kvars, svars>>

\* the model is of the family: the loop is entered
FilterEnter ==
    /\ fPc = "enter"
    /\ AppliesTo(fModel)
    /\ fPc' = "loop"
    /\ UNCHANGED <<fModel, fInput, fText, fOut, fIter>>
    /\ UNCHANGED <<dvars, cvars, hvars, kvars, svars>>

\* one pass that finds a block and removes it
FilterRemove ==
    /\ fPc = "loop"
    /\ LET start == Index(fText, ThinkStart)
           end   == Index(fText, ThinkEnd)
       IN  /\ MatchedPair(start, end)
           /\ fText' = RemoveBlock(fText, start, end)
    /\ fIter' = fIter + 1
    /\ UNCHANGED <<fModel, fInput, fOut, fPc>>
    /\ UNCHANGED <<dvars, cvars, hvars, kvars, svars>>

\* the pass that finds no block: break, return text
FilterBreak ==
    /\ fPc = "loop"
    /\ ~MatchedPair(Index(fText, ThinkStart), Index(fText, ThinkEnd))
    /\ fOut' = AtBreak(fText)
    /\ fPc' = "done"
    /\ UNCHANGED <<fModel, fInput, fText, fIter>>
    /\ UNCHANGED <<dvars, cvars, hvars, kvars, svars>>

FilterLoopNext ==
    \/ FilterSkip
    \/ FilterEnter
    \/ FilterRemove
    \/ FilterBreak

----------------------------------------------------------------------------
(* DecodeSpec: the decoder applied to one response body.                   *)

Letters == {<<"a">>, <<"b">>}

DecodeLines ==
    {ChunkLine(r, c, d, l) : r \in {"assistant", "user"}, c \in Letters,
                             d \in BOOLEAN, l \in BOOLEAN}
    \cup {MalformedLine(l) : l \in BOOLEAN}
    \cup {EmptyLine}

DecodeInit ==
    /\ dBody \in SeqsUpTo(DecodeLines, MaxLines)
    /\ dOut = <<>>
    /\ dPc = "call"

DecodeIdle ==
    /\ dBody = <<>>
    /\ dOut = <<>>
    /\ dPc = "idle"

ApplyDecode ==
    /\ dPc = "call"
    /\ dOut' = Decode(dBody)
    /\ dPc' = "done"
    /\ UNCHANGED dBody
    /\ UNCHANGED <<fvars, cvars, hvars, kvars, svars>>

----------------------------------------------------------------------------
(* The chat command: data.                                                 *)

\* "/exit", "/clear", "/edit", "/vi", "/search "
SlashExit == <<"/", "e", "x", "i", "t">>
SlashClear == <<"/", "c", "l", "e", "a", "r">>
SlashEdit == <<"/", "e", "d", "i", "t">>
SlashVi == <<"/", "v", "i">>
SearchPrefix == <<"/", "s", "e", "a", "r", "c", "h", " ">>
\* " - ", the separator buildPrompt puts between its four answers
Dash == <<" ", "-", " ">>

\* ChatMessage{Role, Content}, and the role/content maps of the Context
Msg(role, content) == [role |-> role, content |-> content]

\* ChatSession{SessionKey, Messages}
Session(key, msgs) == [session_key |-> key, messages |-> msgs]

\* the lines the user may type, as reader.ReadString('\n') returns them;
\* the commands only handleChat knows are typed to handleChat only
InputLines(v) ==
    { SlashExit \o <<"\n">>,
      SlashClear \o <<"\n">>,
      <<"\n">>,
      <<" ", "\n">>,
      <<"h", "i", "\n">> }
    \cup IF v = "handleChat"
         THEN { SlashEdit \o <<"\n">>, SearchPrefix \o <<"q", "\n">> }
         ELSE {}

\* what the editor may leave in the temporary file
EditorContents == { <<>>, <<" ", "h", "i", "\n">> }

\* what the user may answer to buildPrompt's first question
PersonaAnswers == { <<"\n">>, <<"c", "\n">> }

\* what searchInternet may return
SearchResults == { <<"n", "o">> }

\* the response bodies the server may send with status 200
ChatBodies ==
    { <<ChunkLine("assistant", <<"o", "k">>, TRUE, FALSE)>>,
      <<ChunkLine("assistant", ThinkStart \o <<"x">> \o ThinkEnd, FALSE, FALSE),
        MalformedLine(FALSE),
        ChunkLine("assistant", <<"o", "k">>, TRUE, FALSE),
        ChunkLine("assistant", <<"z">>, FALSE, FALSE)>>,
      <<EmptyLine>> }

\* the models the command may be started with: "gemma3", "qwen3"
ChatModels == { <<"g", "e", "m", "m", "a", "3">>, Qwen3 }

\* session keys crypto/rand may produce, hex-encoded
SessionKeys == {"k1", "k2"}

\* a session an earlier run saved
OldSession ==
    Session("k1", <<Msg("user", <<"h", "i">>), Msg("ollama", <<"o", "k">>)>>)

\* json.Encoder writes a string: the quote, the backslash and the control
\* characters escaped, and (SetEscapeHTML is on by default) <, > and & as
\* \u003c, \u003e and \u0026
EscapeChar(c) ==
    CASE c = "\"" -> <<"\\", "\"">>
      [] c = "\\" -> <<"\\", "\\">>
      [] c = "\n" -> <<"\\", "n">>
      [] c = "\r" -> <<"\\", "r">>
      [] c = "\t" -> <<"\\", "t">>
      [] c = "<" -> <<"\\", "u", "0", "0", "3", "c">>
      [] c = ">" -> <<"\\", "u", "0", "0", "3", "e">>
      [] c = "&" -> <<"\\", "u", "0", "0", "2", "6">>
      [] OTHER -> <<c>>

\* the escapes of the characters of a text, one after the other
RECURSIVE jsonEscape(_)
jsonEscape(text) ==
    IF text = <<>> THEN <<>>
    ELSE IF Len(text) = 1 THEN EscapeChar(text[1])
    ELSE LET half == Len(text) \div 2
         IN  jsonEscape(SubSeq(text, 1, half))
                 \o jsonEscape(SubSeq(text, half + 1, Len(text)))

\* the character a \uXXXX escape stands for
HexChar(h) ==
    CASE h = <<"0", "0", "3", "c">> -> "<"
      [] h = <<"0", "0", "3", "e">> -> ">"
      [] h = <<"0", "0", "2", "6">> -> "&"
      [] OTHER -> "?"

\* the character a two-character escape stands for
ShortEscape(c) ==
    CASE c = "n" -> "\n"
      [] c = "r" -> "\r"
      [] c = "t" -> "\t"
      [] OTHER -> c

\* json.Decoder reads a string: the text up to the next backslash as it
\* is, then the character the escape stands for, then the rest
RECURSIVE jsonUnescape(_)
jsonUnescape(e) ==
    LET at == Index(e, <<"\\">>)
        rest == SubSeq(e, at + 1, Len(e))
    IN  IF at = -1 \/ Len(rest) < 2 THEN e
        ELSE IF rest[2] = "u" /\ Len(rest) >= 6
        THEN Slice(e, 0, at) \o <<HexChar(SubSeq(rest, 3, 6))>>
                 \o jsonUnescape(SubSeq(rest, 7, Len(rest)))
        ELSE Slice(e, 0, at) \o <<ShortEscape(rest[2])>>
                 \o jsonUnescape(SubSeq(rest, 3, Len(rest)))

\* the sessions as the file holds them, and as decoded from the file
EncodeSessions(sessions) ==
    [i \in 1..Len(sessions) |->
        Session(sessions[i].session_key,
                [j \in 1..Len(sessions[i].messages) |->
                    Msg(sessions[i].messages[j].role,
                        jsonEscape(sessions[i].messages[j].content))])]
DecodeSessions(stored) ==
    [i \in 1..Len(stored) |->
        Session(stored[i].session_key,
                [j \in 1..Len(stored[i].messages) |->
                    Msg(stored[i].messages[j].role,
                        jsonUnescape(stored[i].messages[j].content))])]

\* the history file as a run may find it: absent, not JSON, JSON whose
\* second session is not an object (Decode fills what it can: the first
\* session and a zero ChatSession, and returns an error), or as saved
MissingFile == [status |-> "missing", sessions |-> <<>>]
CorruptFile == [status |-> "corrupt", sessions |-> <<>>]
ValidFile(sessions) ==
    [status |-> "valid", sessions |-> EncodeSessions(sessions)]
MismatchFile ==
    [status |-> "mismatch",
     sessions |-> EncodeSessions(<<OldSession, Session("", <<>>)>>)]
HistoryFiles ==
    {MissingFile, CorruptFile, MismatchFile, ValidFile(<<OldSession>>)}

----------------------------------------------------------------------------
(* The chat command: helpers.                                              *)

\* loadChatHistory: the error of os.Open and of Decode is dropped.  A file
\* that cannot be opened or is not JSON leaves chatHistory as declared, with
\* no sessions; otherwise chatHistory holds what Decode filled
loadChatHistory(file) ==
    IF file.status \in {"valid", "mismatch"}
    THEN DecodeSessions(file.sessions)
    ELSE <<>>

\* the chat command goes on to the loop whatever the load returned
\* (faulty variant: a history file that does not load ends the command)
StopsOnBadFile(file, next) ==
    IF file.status = "valid" THEN next ELSE "Terminated"
AfterLoad(file, next) == next

\* "messages": messages, in the body of the request
\* (faulty variant: the new user Message alone is sent)
LastMessageOnly(ctx) == SubSeq(ctx, Len(ctx), Len(ctx))
RequestMessages(ctx) == ctx

\* the role under which the reply enters session.Messages
\* (faulty variant: the reply stored under the role of the prompt)
StoredAsUser == "user"
StoredRole == "ollama"

\* chatHistory.Sessions = append(chatHistory.Sessions, session)
\* (faulty variant: the new session replaces the ones loaded)
ReplaceSessions(sessions, s) == <<s>>
AppendSession(sessions, s) == Append(sessions, s)

\* break: the loop is left, the code after it runs once
\* (faulty variant: the loop goes on after the save)
KeepsReading == "AwaitingInput"
AfterBreak == "Terminated"

\* buildPrompt: role + " - " + task + " - " + contextDetails + " - " + formatRequest
buildPrompt(role, task, contextDetails, formatRequest) ==
    TrimSpace(role) \o Dash \o TrimSpace(task) \o Dash
        \o TrimSpace(contextDetails) \o Dash \o TrimSpace(formatRequest)

\* the order in which the loop tests the prompt
Classify(v, p) ==
    IF v = "handleChat" /\ HasPrefix(p, SearchPrefix) THEN "search"
    ELSE IF p = SlashExit THEN "exit"
    ELSE IF p = SlashClear THEN "clear"
    ELSE IF p = <<>> THEN "blank"
    ELSE "turn"

\* prompt == "/edit" || prompt == "/vi", tested by handleChat only
OpensEditor(v, p) == v = "handleChat" /\ p \in {SlashEdit, SlashVi}

\* the prompts that reach the loop's tests: a typed line, trimmed, or (in
\* handleChat, after /edit or /vi) the non-blank content of the edited file
PromptsRead(v) ==
    {TrimSpace(l) : l \in {x \in InputLines(v) : ~OpensEditor(v, TrimSpace(x))}}
    \cup IF \E l \in InputLines(v) : OpensEditor(v, TrimSpace(l))
         THEN {TrimSpace(c) : c \in EditorContents} \ {<<>>}
         ELSE {}

\* messages = nil
\* (faulty variant: the Context kept)
KeepContext(ctx) == ctx
ContextAfterClear(ctx) == <<>>

\* /clear does not touch session.Messages
\* (faulty variant: the transcript cleared too)
DropTranscript(msgs) == <<>>
TranscriptAfterClear(msgs) == msgs

\* a failed request: continue, with messages as they are
\* (faulty variant: the failed user Message removed)
DropFailedPrompt(ctx) == SubSeq(ctx, 1, Len(ctx) - 1)
ContextAfterFailure(ctx) == ctx

\* the content stored for the reply: responseText, not printText
\* (faulty variant: the displayed text stored)
StoredFiltered(response, shown) == shown
StoredContent(response, shown) == response

\* userInputFound
\* (faulty variant: every session saved)
SaveAlways(msgs) == TRUE
userInputFound(msgs) ==
    \E i \in 1..Len(msgs) :
        msgs[i].role = "user" /\ TrimSpace(msgs[i].content) # <<>>

----------------------------------------------------------------------------
(* The chat command: actions.                                              *)

Init ==
    /\ variant \in {"main", "handleChat"}
    /\ model \in ChatModels
    /\ pc = "Start"
    /\ historyFile \in HistoryFiles
    /\ chatHistory = <<>>
    /\ sessionKey = ""
    /\ session = <<>>
    /\ messages = <<>>
    /\ prompt = <<>>
    /\ readErr = "nil"
    /\ respBody = <<>>
    /\ responseText = <<>>
    /\ printText = <<>>
    /\ outcome = "none"
    /\ lastRequest = [model |-> model, messages |-> <<>>]
    /\ reported = "none"
    /\ nInputs = 0
    /\ nRequests = 0
    /\ nWrites = 0
    /\ nOk = 0
    /\ okSince = 0
    /\ failSince = 0
    /\ searchSince = 0
    /\ ctxEpoch = <<>>
    /\ epoch = 0
    /\ fileAtStart = historyFile
    /\ nReads = 0

\* the chat command is not running
ChatUnstarted ==
    /\ model = Qwen3
    /\ pc = "Idle"
    /\ chatHistory = <<>>
    /\ sessionKey = ""
    /\ session = <<>>
    /\ messages = <<>>
    /\ prompt = <<>>
    /\ readErr = "nil"
    /\ respBody = <<>>
    /\ responseText = <<>>
    /\ printText = <<>>
    /\ outcome = "none"
    /\ lastRequest = [model |-> model, messages |-> <<>>]
    /\ reported = "none"
    /\ nInputs = 0
    /\ nRequests = 0
    /\ nWrites = 0
    /\ nOk = 0
    /\ okSince = 0
    /\ failSince = 0
    /\ searchSince = 0
    /\ ctxEpoch = <<>>
    /\ epoch = 0
    /\ fileAtStart = historyFile
    /\ nReads = 0

ChatIdle ==
    /\ variant = "main"
    /\ historyFile = MissingFile
    /\ ChatUnstarted

\* respBody, responseText and printText are declared inside the loop body:
\* each iteration starts without them
FreshLocals ==
    /\ respBody' = <<>>
    /\ responseText' = <<>>
    /\ printText' = <<>>

\* what one loop iteration that only reads a line leaves alone
ReadOnlyFrame ==
    /\ FreshLocals
    /\ outcome' = "none"
    /\ UNCHANGED <<variant, model, historyFile, chatHistory, sessionKey,
                   session, lastRequest, nRequests, nWrites, nOk, okSince,
                   failSince, fileAtStart, nReads>>

\* main, owllama.go 92-115: the session key, the history, an empty Context
StartMain ==
    /\ UNCHANGED <<fvars, dvars, kvars, svars>>
    /\ pc = "Start"
    /\ variant = "main"
    /\ \E key \in SessionKeys : sessionKey' = key
    /\ chatHistory' = loadChatHistory(historyFile)
    /\ nReads' = nReads + 1
    /\ session' = <<>>
    /\ messages' = <<>>
    /\ pc' = AfterLoad(historyFile, "AwaitingInput")
    /\ UNCHANGED <<variant, model, historyFile, prompt, readErr, respBody,
                   responseText, printText, outcome, lastRequest, reported>>
    /\ UNCHANGED <<nInputs, nRequests, nWrites, nOk, okSince, failSince,
                   searchSince, ctxEpoch, epoch, fileAtStart>>

\* handleChat, part_000 117-137: the built prompt is the first turn
StartHandleChat ==
    /\ UNCHANGED <<fvars, dvars, kvars, svars>>
    /\ pc = "Start"
    /\ variant = "handleChat"
    /\ \E key \in SessionKeys : sessionKey' = key
    /\ chatHistory' = loadChatHistory(historyFile)
    /\ nReads' = nReads + 1
    /\ session' = <<>>
    /\ \E role \in PersonaAnswers :
           prompt' = buildPrompt(role, <<"\n">>, <<"\n">>, <<"\n">>)
    /\ messages' = <<Msg("user", prompt')>>
    /\ ctxEpoch' = <<epoch>>
    /\ lastRequest' = [model |-> model, messages |-> RequestMessages(messages')]
    /\ nRequests' = nRequests + 1
    /\ outcome' = "pending"
    /\ pc' = AfterLoad(historyFile, "Processing")
    /\ UNCHANGED <<variant, model, historyFile, readErr, respBody,
                   responseText, printText, reported>>
    /\ UNCHANGED <<nInputs, nWrites, nOk, okSince, failSince, searchSince,
                   epoch, fileAtStart>>

\* the code after the loop: save the session if the user provided input
FinishSession ==
    IF userInputFound(session)
    THEN /\ chatHistory' = AppendSession(chatHistory,
                                         Session(sessionKey, session))
         /\ \E result \in {"written", "openFails", "encodeFails"} :
               CASE result = "written" ->
                        /\ historyFile' = ValidFile(chatHistory')
                        /\ nWrites' = nWrites + 1
                        /\ reported' = "none"
                 [] result = "openFails" ->
                        /\ UNCHANGED <<historyFile, nWrites>>
                        /\ reported' = "Error writing to history file"
                 [] result = "encodeFails" ->
                        /\ historyFile' = CorruptFile
                        /\ nWrites' = nWrites + 1
                        /\ reported' = "none"
    ELSE /\ UNCHANGED <<chatHistory, historyFile, nWrites>>
         /\ reported' = "none"

\* reader.ReadString returns io.EOF
ReadEOF ==
    /\ UNCHANGED <<fvars, dvars, kvars, svars>>
    /\ pc = "AwaitingInput"
    /\ nInputs' = nInputs + 1
    /\ prompt' = <<>>
    /\ readErr' = "EOF"
    /\ pc' = AfterBreak
    /\ FinishSession
    /\ FreshLocals
    /\ outcome' = "none"
    /\ UNCHANGED <<variant, model, sessionKey, session, messages,
                   lastRequest>>
    /\ UNCHANGED <<nRequests, nOk, okSince, failSince, searchSince, ctxEpoch,
                   epoch, fileAtStart, nReads>>

\* reader.ReadString returns another error: continue
ReadError ==
    /\ UNCHANGED <<fvars, dvars, kvars, svars>>
    /\ pc = "AwaitingInput"
    /\ nInputs < MaxInputs
    /\ nInputs' = nInputs + 1
    /\ prompt' = <<>>
    /\ readErr' = "other"
    /\ reported' = "Error reading input"
    /\ pc' = "AwaitingInput"
    /\ ReadOnlyFrame
    /\ UNCHANGED <<messages, searchSince, ctxEpoch, epoch>>

\* /edit or /vi in handleChat, and the editor or its file fails: continue
EditorFails ==
    /\ UNCHANGED <<fvars, dvars, kvars, svars>>
    /\ pc = "AwaitingInput"
    /\ nInputs < MaxInputs
    /\ \E l \in InputLines(variant) :
          /\ OpensEditor(variant, TrimSpace(l))
          /\ prompt' = TrimSpace(l)
    /\ nInputs' = nInputs + 1
    /\ readErr' = "nil"
    /\ reported' = "Editor error"
    /\ pc' = "AwaitingInput"
    /\ ReadOnlyFrame
    /\ UNCHANGED <<messages, searchSince, ctxEpoch, epoch>>

\* /edit or /vi in handleChat, and the edited file is blank: continue
EditorBlank ==
    /\ UNCHANGED <<fvars, dvars, kvars, svars>>
    /\ pc = "AwaitingInput"
    /\ nInputs < MaxInputs
    /\ \E l \in InputLines(variant) : OpensEditor(variant, TrimSpace(l))
    /\ \E c \in EditorContents :
          /\ TrimSpace(c) = <<>>
          /\ prompt' = TrimSpace(c)
    /\ nInputs' = nInputs + 1
    /\ readErr' = "nil"
    /\ reported' = "none"
    /\ pc' = "AwaitingInput"
    /\ ReadOnlyFrame
    /\ UNCHANGED <<messages, searchSince, ctxEpoch, epoch>>

\* prompt == "/exit": break, then the code after the loop
Exit ==
    /\ UNCHANGED <<fvars, dvars, kvars, svars>>
    /\ pc = "AwaitingInput"
    /\ \E p \in PromptsRead(variant) :
          /\ Classify(variant, p) = "exit"
          /\ prompt' = p
    /\ nInputs' = nInputs + 1
    /\ readErr' = "nil"
    /\ pc' = AfterBreak
    /\ FinishSession
    /\ FreshLocals
    /\ outcome' = "none"
    /\ UNCHANGED <<variant, model, sessionKey, session, messages,
                   lastRequest>>
    /\ UNCHANGED <<nRequests, nOk, okSince, failSince, searchSince, ctxEpoch,
                   epoch, fileAtStart, nReads>>

\* prompt == "/clear": messages = nil; continue
Clear ==
    /\ UNCHANGED <<fvars, dvars, kvars, svars>>
    /\ pc = "AwaitingInput"
    /\ nInputs < MaxInputs
    /\ \E p \in PromptsRead(variant) :
          /\ Classify(variant, p) = "clear"
          /\ prompt' = p
    /\ nInputs' = nInputs + 1
    /\ readErr' = "nil"
    /\ messages' = ContextAfterClear(messages)
    /\ session' = TranscriptAfterClear(session)
    /\ ctxEpoch' = SubSeq(ctxEpoch, 1, Len(messages'))
    /\ epoch' = epoch + 1
    /\ okSince' = 0
    /\ failSince' = 0
    /\ searchSince' = 0
    /\ reported' = "none"
    /\ pc' = "AwaitingInput"
    /\ FreshLocals
    /\ outcome' = "none"
    /\ UNCHANGED <<variant, model, historyFile, chatHistory, sessionKey,
                   lastRequest>>
    /\ UNCHANGED <<nRequests, nWrites, nOk, fileAtStart, nReads>>

\* prompt == "": continue
Blank ==
    /\ UNCHANGED <<fvars, dvars, kvars, svars>>
    /\ pc = "AwaitingInput"
    /\ nInputs < MaxInputs
    /\ \E p \in PromptsRead(variant) :
          /\ Classify(variant, p) = "blank"
          /\ prompt' = p
    /\ nInputs' = nInputs + 1
    /\ readErr' = "nil"
    /\ reported' = "none"
    /\ pc' = "AwaitingInput"
    /\ ReadOnlyFrame
    /\ UNCHANGED <<messages, searchSince, ctxEpoch, epoch>>

\* "/search <query>" in handleChat, and searchInternet fails: continue
SearchFails ==
    /\ UNCHANGED <<fvars, dvars, kvars, svars>>
    /\ pc = "AwaitingInput"
    /\ nInputs < MaxInputs
    /\ \E p \in PromptsRead(variant) :
          /\ Classify(variant, p) = "search"
          /\ prompt' = p
    /\ nInputs' = nInputs + 1
    /\ readErr' = "nil"
    /\ reported' = "Search error"
    /\ pc' = "AwaitingInput"
    /\ ReadOnlyFrame
    /\ UNCHANGED <<messages, searchSince, ctxEpoch, epoch>>

\* "/search <query>" in handleChat: the result joins the Context as an
\* assistant Message; continue
Search ==
    /\ UNCHANGED <<fvars, dvars, kvars, svars>>
    /\ pc = "AwaitingInput"
    /\ nInputs < MaxInputs
    /\ \E p \in PromptsRead(variant) :
          /\ Classify(variant, p) = "search"
          /\ prompt' = p
    /\ nInputs' = nInputs + 1
    /\ readErr' = "nil"
    /\ \E result \in SearchResults :
          messages' = Append(messages, Msg("assistant", result))
    /\ ctxEpoch' = Append(ctxEpoch, epoch)
    /\ searchSince' = searchSince + 1
    /\ reported' = "none"
    /\ pc' = "AwaitingInput"
    /\ ReadOnlyFrame
    /\ UNCHANGED epoch

\* any other prompt: a turn.  The user Message joins the Context and the
\* request carrying the Context is sent
Submit ==
    /\ UNCHANGED <<fvars, dvars, kvars, svars>>
    /\ pc = "AwaitingInput"
    /\ nInputs < MaxInputs
    /\ \E p \in PromptsRead(variant) :
          /\ Classify(variant, p) = "turn"
          /\ prompt' = p
    /\ nInputs' = nInputs + 1
    /\ readErr' = "nil"
    /\ messages' = Append(messages, Msg("user", prompt'))
    /\ ctxEpoch' = Append(ctxEpoch, epoch)
    /\ lastRequest' = [model |-> model, messages |-> RequestMessages(messages')]
    /\ nRequests' = nRequests + 1
    /\ outcome' = "pending"
    /\ reported' = "none"
    /\ pc' = "Processing"
    /\ FreshLocals
    /\ UNCHANGED <<variant, model, historyFile, chatHistory, sessionKey,
                   session>>
    /\ UNCHANGED <<nWrites, nOk, okSince, failSince, searchSince, epoch,
                   fileAtStart, nReads>>

\* what a failed request leaves alone
FailedFrame ==
    /\ messages' = ContextAfterFailure(messages)
    /\ ctxEpoch' = SubSeq(ctxEpoch, 1, Len(messages'))
    /\ failSince' = failSince + 1
    /\ pc' = "AwaitingInput"
    /\ UNCHANGED <<variant, model, historyFile, chatHistory, sessionKey,
                   session, prompt, readErr, responseText, printText,
                   lastRequest>>
    /\ UNCHANGED <<nInputs, nRequests, nWrites, nOk, okSince, searchSince,
                   epoch, fileAtStart, nReads>>

\* http.DefaultClient.Do returns an error: report it, continue
TransportError ==
    /\ UNCHANGED <<fvars, dvars, kvars, svars>>
    /\ pc = "Processing"
    /\ outcome' = "transport"
    /\ reported' = "Error contacting Ollama API"
    /\ UNCHANGED respBody
    /\ FailedFrame

\* resp.StatusCode != 200: report the body, continue
StatusError ==
    /\ UNCHANGED <<fvars, dvars, kvars, svars>>
    /\ pc = "Processing"
    /\ outcome' = "status"
    /\ respBody' = <<MalformedLine(FALSE)>>
    /\ reported' = IF variant = "main" THEN "Ollama API error"
                   ELSE "Error contacting Ollama API"
    /\ FailedFrame

\* status 200: decode, filter for display, store the reply
Reply ==
    /\ UNCHANGED <<fvars, dvars, kvars, svars>>
    /\ pc = "Processing"
    /\ \E body \in ChatBodies : respBody' = body
    /\ outcome' = "ok"
    /\ responseText' = Decode(respBody')
    /\ printText' = filterQwenThink(model, responseText')
    /\ messages' = Append(messages,
            Msg("assistant", StoredContent(responseText', printText')))
    /\ ctxEpoch' = Append(ctxEpoch, epoch)
    /\ session' = session \o
            << Msg("user", prompt),
               Msg(StoredRole, StoredContent(responseText', printText')) >>
    /\ nOk' = nOk + 1
    /\ okSince' = okSince + 1
    /\ reported' = "none"
    /\ pc' = "AwaitingInput"
    /\ UNCHANGED <<variant, model, historyFile, chatHistory, sessionKey,
                   prompt, readErr, lastRequest>>
    /\ UNCHANGED <<nInputs, nRequests, nWrites, failSince, searchSince,
                   epoch, fileAtStart, nReads>>

Next ==
    \/ StartMain
    \/ StartHandleChat
    \/ ReadEOF
    \/ ReadError
    \/ EditorFails
    \/ EditorBlank
    \/ Exit
    \/ Clear
    \/ Blank
    \/ SearchFails
    \/ Search
    \/ Submit
    \/ TransportError
    \/ StatusError
    \/ Reply


----------------------------------------------------------------------------
(* Properties of the chat session (checked under Spec).                    *)

\* user, assistant, user, assistant, ...
Alternating(ctx) ==
    \A i \in 1..Len(ctx) :
        ctx[i].role = IF i % 2 = 1 THEN "user" ELSE "assistant"

\* the user Message of a request still in flight
Pending == IF pc = "Processing" THEN 1 ELSE 0

\* the loop is between two iterations, or has ended
BetweenTurns == pc \in {"AwaitingInput", "Terminated"}

\* C1 as stated: after T successful turns (and no /clear) the Context holds
\* exactly 2T Messages, alternating user/assistant.
C1_ContextHoldsTwoPerTurn ==
    (BetweenTurns /\ epoch = 0) =>
        /\ Len(messages) = 2 * nOk
        /\ Alternating(messages)

\* C1 amended: counted from the session start or the last /clear, after T
\* successful turns, F failed turns and S search results the Context holds
\* exactly 2T + F + S Messages (plus the user Message of a request in
\* flight), alternating user/assistant when F = S = 0; right after a /clear
\* the Context holds 0 Messages, and every Message of the Context, hence of
\* every later request, was entered after the last /clear.
C1_ContextAccumulates ==
    pc # "Start" =>
        /\ Len(messages) = 2 * okSince + failSince + searchSince + Pending
        /\ (failSince = 0 /\ searchSince = 0 => Alternating(messages))
        /\ (readErr = "nil" /\ prompt = SlashClear => messages = <<>>)
        /\ Len(ctxEpoch) = Len(messages)
        /\ \A i \in 1..Len(ctxEpoch) : ctxEpoch[i] = epoch
        /\ (pc = "Processing" => lastRequest.messages = messages)

\* C1 witness: a turn succeeded, /clear was entered, and a later turn
\* succeeded: the Context holds the two Messages of the later turn only.
C1_Witness ==
    /\ pc = "AwaitingInput"
    /\ epoch >= 1
    /\ nOk >= 2
    /\ okSince = 1
    /\ failSince = 0
    /\ Len(messages) = 2
    /\ Len(session) >= 4

\* C2: a failed request leaves the Context as it was sent, ending with the
\* user Message of the failed attempt, and leaves the transcript alone;
\* resubmitting the turn adds the user Message only, and the successful
\* reply then adds exactly one Message, an assistant Message.
C2_FailedTurnKeepsPrompt ==
    [][ /\ (pc = "Processing" /\ outcome' \in {"transport", "status"}) =>
              /\ messages' = messages
              /\ messages # <<>>
              /\ messages[Len(messages)] = Msg("user", prompt)
              /\ session' = session
              /\ pc' = "AwaitingInput"
        /\ (pc = "AwaitingInput" /\ pc' = "Processing") =>
              messages' = Append(messages, Msg("user", prompt'))
        /\ (pc = "Processing" /\ outcome' = "ok") =>
              /\ Len(messages') = Len(messages) + 1
              /\ SubSeq(messages', 1, Len(messages)) = messages
              /\ messages'[Len(messages')].role = "assistant"
      ]_vars

\* C2 witness: a turn failed, the same prompt was entered again and
\* succeeded: the Context ends with the prompt twice and one reply.
C2_Witness ==
    /\ outcome = "ok"
    /\ failSince >= 1
    /\ Len(messages) >= 3
    /\ messages[Len(messages) - 2] = Msg("user", prompt)
    /\ messages[Len(messages) - 1] = Msg("user", prompt)
    /\ messages[Len(messages)].role = "assistant"

\* C3: the iteration that reads /clear empties the Context, leaves the
\* transcript as it was, issues no request and goes back to AwaitingInput.
C3_ClearKeepsTranscript ==
    [][ (nInputs' = nInputs + 1 /\ readErr' = "nil" /\ prompt' = SlashClear) =>
            /\ messages' = <<>>
            /\ session' = session
            /\ nRequests' = nRequests
            /\ lastRequest' = lastRequest
            /\ historyFile' = historyFile
            /\ pc' = "AwaitingInput"
      ]_vars

\* C3 witness: /clear was just read in a session with a non-empty
\* transcript.
C3_Witness ==
    /\ pc = "AwaitingInput"
    /\ readErr = "nil"
    /\ prompt = SlashClear
    /\ nOk >= 1
    /\ session # <<>>
    /\ messages = <<>>

\* the transcript has a user Message that is not blank
HasUserInput ==
    \E i \in 1..Len(session) :
        session[i].role = "user" /\ TrimSpace(session[i].content) # <<>>

\* C4: a session that ends with no completed turn, hence with no non-empty
\* user Message, leaves the history file as it found it: not rewritten,
\* same sessions.
C4_EmptySessionNotSaved ==
    (pc = "Terminated" /\ (nOk = 0 \/ ~HasUserInput)) =>
        /\ nOk = 0
        /\ session = <<>>
        /\ nWrites = 0
        /\ historyFile = fileAtStart
        /\ chatHistory = loadChatHistory(fileAtStart)

\* C4 witness: a session with a failed turn and a /clear, and no completed
\* turn, has ended over a history file holding a session.
C4_Witness ==
    /\ pc = "Terminated"
    /\ nOk = 0
    /\ nRequests >= 1
    /\ epoch >= 1
    /\ fileAtStart = ValidFile(<<OldSession>>)
    /\ historyFile = fileAtStart

\* C7: on a successful turn the Message appended to the Context and the
\* reply appended to the transcript carry the decoded reply as it is; only
\* the displayed text is the filtered one.
C7_StoredReplyUnfiltered ==
    [][ (pc = "Processing" /\ outcome' = "ok") =>
            LET reply == Decode(respBody') IN
            /\ messages' = Append(messages, Msg("assistant", reply))
            /\ Len(session') = Len(session) + 2
            /\ session'[Len(session')].content = reply
            /\ printText' = filterQwenThink(model, reply)
      ]_vars

\* C7 witness: a reasoning-family model replied with a think block; the
\* displayed text differs from the stored one.
C7_Witness ==
    /\ outcome = "ok"
    /\ Contains(model, Qwen3)
    /\ Contains(responseText, ThinkStart)
    /\ printText # responseText
    /\ messages[Len(messages)].content = responseText
    /\ session[Len(session)].content = responseText

----------------------------------------------------------------------------
(* Properties of the think-block filter (checked under FilterSpec).        *)

\* the text with every matched block deleted, both markers in full
RECURSIVE WithoutBlocks(_)
WithoutBlocks(text) ==
    LET start == Index(text, ThinkStart)
        end   == Index(text, ThinkEnd)
    IN  IF start # -1 /\ end # -1 /\ end > start
        THEN WithoutBlocks(Slice(text, 0, start)
                           \o Slice(text, end + Len(ThinkEnd), Len(text)))
        ELSE text

\* C5 as stated: for a reasoning-family model the filter returns the input
\* with every matched block deleted from its start marker through its end
\* marker inclusive; "A<think>B</think>C" filters to "AC".
C5_FilterDeletesBlocks ==
    (fPc = "done" /\ Contains(fModel, Qwen3)) =>
        /\ fOut = WithoutBlocks(fInput)
        /\ (fInput = ExampleText => fOut = <<"A", "C">>)

\* C6: for a model identifier without the marker the filter returns the
\* text as it is.
C6_OtherModelsUnfiltered ==
    (fPc = "done" /\ ~Contains(fModel, Qwen3)) => fOut = fInput

\* C6 witness: a text with a matched think block went through the filter
\* for a model without the marker.
C6_Witness ==
    /\ fPc = "done"
    /\ ~Contains(fModel, Qwen3)
    /\ Index(fInput, ThinkStart) # -1
    /\ Index(fInput, ThinkEnd) > Index(fInput, ThinkStart)
    /\ fOut = fInput

----------------------------------------------------------------------------
(* Properties of the response decoder (checked under DecodeSpec).          *)

\* the contents of the assistant-role chunks of a body, concatenated
RECURSIVE AssistantContents(_)
AssistantContents(body) ==
    IF body = <<>> THEN <<>>
    ELSE LET line == Head(body) IN
         (IF line.kind = "chunk" /\ line.role = "assistant"
          THEN line.content ELSE <<>>)
         \o AssistantContents(Tail(body))

\* N well-formed chunks, done = true on the last one only
WellFormedBody(body) ==
    /\ Len(body) >= 1
    /\ \A i \in 1..Len(body) :
          /\ body[i].kind = "chunk"
          /\ body[i].done = (i = Len(body))

\* every line fits the scanner's buffer
WithinScanLimit(body) == \A i \in 1..Len(body) : ~body[i].tooLong

\* the valid chunks of a body, without its malformed and empty lines
IsChunk(line) == line.kind = "chunk"
ValidChunks(body) == SelectSeq(body, IsChunk)

\* a parsed chunk with done = true
IsDoneChunk(line) == line.kind = "chunk" /\ line.done

\* s is a prefix of t
IsPrefix(s, t) == Len(s) <= Len(t) /\ SubSeq(t, 1, Len(s)) = s

\* C8 as stated: a body of N well-formed chunks, done on the last only,
\* decodes to the concatenation of its assistant contents, and the same
\* reply sent as one large chunk decodes to the same text.
C8_DecodeConcatenates ==
    (dPc = "done" /\ WellFormedBody(dBody)) =>
        /\ dOut = AssistantContents(dBody)
        /\ \A long \in BOOLEAN :
              Decode(<<ChunkLine("assistant", AssistantContents(dBody),
                                 TRUE, long)>>) = dOut

\* C8 restricted to bodies whose lines fit the scanner's buffer (holds).
C8_WithinScanLimit ==
    (dPc = "done" /\ WellFormedBody(dBody) /\ WithinScanLimit(dBody)) =>
        /\ dOut = AssistantContents(dBody)
        /\ Decode(<<ChunkLine("assistant", AssistantContents(dBody),
                              TRUE, FALSE)>>) = dOut

\* line k is the first chunk of the body with done = true
FirstDone(body, k) ==
    /\ IsDoneChunk(body[k])
    /\ \A j \in 1..(k - 1) : ~IsDoneChunk(body[j])

\* C9: the decoded text holds nothing of the lines after the first chunk
\* with done = true: it is a prefix of the assistant contents up to and
\* including that chunk, and all of them when those lines fit the buffer.
C9_StopsAtDone ==
    dPc = "done" =>
        \A k \in 1..Len(dBody) :
            FirstDone(dBody, k) =>
                /\ IsPrefix(dOut, AssistantContents(SubSeq(dBody, 1, k)))
                /\ WithinScanLimit(SubSeq(dBody, 1, k)) =>
                       dOut = AssistantContents(SubSeq(dBody, 1, k))

\* C9 witness: an assistant chunk follows a done chunk, and the decoded
\* text is the content up to the done chunk.
C9_Witness ==
    /\ dPc = "done"
    /\ Len(dBody) >= 2
    /\ \E k \in 1..(Len(dBody) - 1) :
          /\ IsDoneChunk(dBody[k])
          /\ WithinScanLimit(dBody)
          /\ dBody[k].role = "assistant"
          /\ dBody[k + 1].kind = "chunk"
          /\ dBody[k + 1].role = "assistant"
          /\ dOut = AssistantContents(SubSeq(dBody, 1, k))
          /\ dOut # AssistantContents(dBody)

\* C10 as stated: a body decodes to the same text as the body without its
\* malformed and empty lines, and a body without parsable assistant
\* content decodes to the empty text.
C10_MalformedLinesIgnored ==
    dPc = "done" =>
        /\ dOut = Decode(ValidChunks(dBody))
        /\ (AssistantContents(dBody) = <<>> => dOut = <<>>)

\* C10 restricted to malformed lines that fit the scanner's buffer (holds).
C10_WithinScanLimit ==
    (dPc = "done" /\ \A i \in 1..Len(dBody) :
                        ~IsChunk(dBody[i]) => ~dBody[i].tooLong) =>
        /\ dOut = Decode(ValidChunks(dBody))
        /\ (AssistantContents(dBody) = <<>> => dOut = <<>>)



----------------------------------------------------------------------------
(* Properties of the history store (checked under Spec).                   *)

\* C11: when a session that completed at least one turn has ended and the
\* save succeeded, loading the history file returns the sessions loaded at
\* the session start, unmodified and in order, followed by one new session
\* whose key is the session key and whose messages are the transcript.
C11_HistoryAppendOnly ==
    (pc = "Terminated" /\ nOk >= 1 /\ nWrites = 1
        /\ historyFile.status = "valid") =>
        loadChatHistory(historyFile) =
            loadChatHistory(fileAtStart) \o <<Session(sessionKey, session)>>

\* C11 witness: a session whose reply holds markup (escaped in the file) was
\* saved after the session an earlier run left.
C11_Witness ==
    /\ pc = "Terminated"
    /\ nOk >= 1
    /\ nWrites = 1
    /\ fileAtStart = ValidFile(<<OldSession>>)
    /\ historyFile.status = "valid"
    /\ Len(historyFile.sessions) = 2
    /\ Contains(session[2].content, ThinkStart)
    /\ historyFile.sessions[2].messages[2].content # session[2].content
    /\ loadChatHistory(historyFile)[2].messages = session

----------------------------------------------------------------------------
(* Properties of the transcript and of the requests (checked under Spec).  *)

\* the transcript grows by one successful turn, the reply stored under role
StepAppendsTurn(role) ==
    /\ (session' # session =>
            /\ pc = "Processing"
            /\ outcome' = "ok"
            /\ nOk' = nOk + 1
            /\ session' = session \o
                   <<Msg("user", prompt), Msg(role, Decode(respBody'))>>)
    /\ (session' = session => nOk' = nOk)
    /\ IsPrefix(session, session')

SendsRequest == nRequests' = nRequests + 1

\* C18: a step sends a request exactly when a turn is submitted, and one
\* request only; its messages are the whole Context in order, ending with
\* the user Message just appended to the Context as it was; and from one
\* step to the next the Context only grows at its end, except by /clear.
C18_RequestCarriesContext ==
    [][ /\ nRequests' \in {nRequests, nRequests + 1}
        /\ SendsRequest <=> (pc # "Processing" /\ pc' = "Processing")
        /\ SendsRequest =>
              /\ lastRequest'.model = model
              /\ lastRequest'.messages = messages'
              /\ messages' = Append(messages, Msg("user", prompt'))
        /\ ~SendsRequest => lastRequest' = lastRequest
        /\ \/ IsPrefix(messages, messages')
           \/ (readErr' = "nil" /\ prompt' = SlashClear /\ messages' = <<>>)
      ]_vars

\* C18 witness: the request of a third submitted turn is in flight, carrying
\* the two Messages of the first turn, the user Message of the failed second
\* one, and the new user Message.
C18_Witness ==
    /\ pc = "Processing"
    /\ nRequests = 3
    /\ nOk = 1
    /\ failSince = 1
    /\ Len(lastRequest.messages) = 4
    /\ lastRequest.messages = messages
    /\ messages[2].role = "assistant"
    /\ messages[4] = Msg("user", prompt)

\* the history file is read at most once, and before any line is read or
\* any request sent; it is written at most once, and then the session has
\* ended on /exit or on the end of the input
ReadOnceWrittenLast ==
    /\ nReads <= 1
    /\ (pc # "Start" \/ nInputs >= 1 \/ nRequests >= 1) => nReads = 1
    /\ nWrites <= 1
    /\ nWrites = 1 =>
          /\ pc = "Terminated"
          /\ readErr = "EOF" \/ (readErr = "nil" /\ prompt = SlashExit)

\* C20: the history file is read once, by the step that starts the session,
\* before the first turn; it is written at most once, by the step that ends
\* the session on /exit or EOF; and a terminated session takes no further
\* step: no line read, no request sent, no Message appended.
C20_ReadOnceWriteOnceThenStop ==
    /\ []ReadOnceWrittenLast
    /\ [][ /\ nReads' # nReads =>
                 (pc = "Start" /\ nInputs = 0 /\ nRequests = 0)
           /\ nWrites' # nWrites => (pc # "Terminated" /\ pc' = "Terminated")
           /\ pc # "Terminated"
         ]_vars

\* C20 witness: a session that read the file once and completed two turns
\* has ended on the end of the input and written the file once.
C20_Witness ==
    /\ pc = "Terminated"
    /\ readErr = "EOF"
    /\ nReads = 1
    /\ nWrites = 1
    /\ nOk = 2
    /\ nRequests >= 2
    /\ Len(session) = 4

----------------------------------------------------------------------------
(* The history command: data.  Here a text is a sequence of bytes, so that *)
(* len and slicing count what Go counts; "C3" and "A9" name the two bytes  *)
(* of one character of two bytes.                                          *)

\* len(firstPrompt) > 40, firstPrompt[:40]
SummaryBound == 40

OneByteChar == <<"a">>
TwoByteChar == <<"C3", "A9">>

\* a byte that continues a character
IsContinuation(b) == b = "A9"

\* a text n times over
Repeat(text, n) ==
    [i \in 1..(n * Len(text)) |-> text[((i - 1) % Len(text)) + 1]]

\* the first prompts of the sessions listed
FirstPrompts ==
    {Repeat(c, n) : c \in {OneByteChar, TwoByteChar}, n \in 0..MaxPromptChars}

\* sessions whose first Message is not the first user Message
ListedSessions ==
    {Session("k1", <<Msg("ollama", <<"o", "k">>), Msg("user", p),
                     Msg("user", <<"h", "i">>)>>) : p \in FirstPrompts}

\* sessions to look up: two of them under one key, one without Messages
StoredSessions ==
    {OldSession, Session("k2", <<>>),
     Session("k1", <<Msg("user", <<"y", "o">>)>>)}

\* the history file as the history command may find it
HistoryCommandFiles ==
    {MissingFile, CorruptFile, MismatchFile}
    \cup {ValidFile(ss) : ss \in SeqsUpTo(StoredSessions, MaxSessions)}
    \cup {ValidFile(<<ls>>) : ls \in ListedSessions}

\* os.Args[2:]
HistoryArgs ==
    {<<>>, <<"list">>, <<"view">>, <<"export">>}
    \cup {<<"view", k>> : k \in {"k1", "k2", "k3", ""}}

\* the characters of the session keys and roles of the model
Chars(str) ==
    CASE str = "k1" -> <<"k", "1">>
      [] str = "k2" -> <<"k", "2">>
      [] str = "k3" -> <<"k", "3">>
      [] str = "user" -> <<"u", "s", "e", "r">>
      [] str = "ollama" -> <<"o", "l", "l", "a", "m", "a">>
      [] str = "assistant" -> <<"a", "s", "s", "i", "s", "t", "a", "n", "t">>
      [] OTHER -> <<>>

UsageLine == <<"U", "s", "a", "g", "e", ":", " ", "o", "w", "l", "l", "a", "m", "a", " ", "h", "i", "s", "t", "o", "r", "y", " ", "<", "l", "i", "s", "t", "|", "v", "i", "e", "w", ">", " ", "[", "k", "e", "y", "]">>
ViewUsageLine == <<"U", "s", "a", "g", "e", ":", " ", "o", "w", "l", "l", "a", "m", "a", " ", "h", "i", "s", "t", "o", "r", "y", " ", "v", "i", "e", "w", " ", "<", "k", "e", "y", ">">>
NotFoundLine == <<"S", "e", "s", "s", "i", "o", "n", " ", "n", "o", "t", " ", "f", "o", "u", "n", "d", ".">>

----------------------------------------------------------------------------
(* The history command: helpers.                                           *)

\* len(os.Args) < 3, an unknown subcommand, or view without a key
UsageError(a) ==
    IF Len(a) = 0 THEN TRUE
    ELSE IF a[1] = "list" THEN FALSE
    ELSE IF a[1] = "view" THEN Len(a) < 2
    ELSE TRUE

\* main (owllama.go) ends the process when the file does not open or Decode
\* returns an error; handleHistory (part_000) calls loadChatHistory
LoadIsFatal(v, file) == v = "main" /\ file.status # "valid"

\* the Content of the first Message of role user, or ""
firstUserMsg(msgs) ==
    IF \E i \in 1..Len(msgs) : msgs[i].role = "user"
    THEN msgs[CHOOSE i \in 1..Len(msgs) :
                 /\ msgs[i].role = "user"
                 /\ \A j \in 1..(i - 1) : msgs[j].role # "user"].content
    ELSE <<>>

\* if len(firstUserMsg) > 40 { firstUserMsg = firstUserMsg[:40] }
Truncate(text) ==
    IF Len(text) > SummaryBound THEN Slice(text, 0, SummaryBound) ELSE text

\* fmt.Printf("%s: %s\n", session.SessionKey, firstUserMsg)
SummaryLine(s) ==
    Chars(s.session_key) \o <<":", " ">> \o Truncate(firstUserMsg(s.messages))

ListOutput(sessions) ==
    [i \in 1..Len(sessions) |-> SummaryLine(sessions[i])]

\* strings.ToUpper of one letter
ToUpper(c) ==
    CASE c = "u" -> "U"
      [] c = "o" -> "O"
      [] c = "a" -> "A"
      [] OTHER -> c

\* strings.ToUpper(role[:1]) + role[1:], if len(role) > 0
Capitalise(role) ==
    IF Len(role) > 0 THEN <<ToUpper(role[1])>> \o Tail(role) ELSE role

\* fmt.Printf("%s: %s\n", role, msg.Content)
MessageLine(m) == Capitalise(Chars(m.role)) \o <<":", " ">> \o m.content

\* fmt.Println("Session not found.")
\* (faulty variant: nothing is written when no session matches)
SilentWhenNotFound == <<>>
NotFoundOutput == <<NotFoundLine>>

\* the Messages of the first session whose key is the key asked for
ViewOutput(sessions, key) ==
    IF \E i \in 1..Len(sessions) : sessions[i].session_key = key
    THEN LET first == CHOOSE i \in 1..Len(sessions) :
                        /\ sessions[i].session_key = key
                        /\ \A j \in 1..(i - 1) : sessions[j].session_key # key
         IN  [j \in 1..Len(sessions[first].messages) |->
                 MessageLine(sessions[first].messages[j])]
    ELSE NotFoundOutput

----------------------------------------------------------------------------
(* The history command: actions.                                           *)

HistoryInit ==
    /\ variant \in {"main", "handleChat"}
    /\ historyFile \in HistoryCommandFiles
    /\ ChatUnstarted
    /\ args \in HistoryArgs
    /\ stdout = <<>>
    /\ stderr = "none"
    /\ exitCode = -1
    /\ kPc = "call"

HistoryIdle ==
    /\ args = <<>>
    /\ stdout = <<>>
    /\ stderr = "none"
    /\ exitCode = -1
    /\ kPc = "idle"

\* the usage message, and os.Exit(1)
HistoryUsage ==
    /\ kPc = "call"
    /\ UsageError(args)
    /\ stdout' = IF Len(args) >= 1 /\ args[1] = "view"
                 THEN <<ViewUsageLine>> ELSE <<UsageLine>>
    /\ stderr' = "none"
    /\ exitCode' = 1
    /\ kPc' = "done"
    /\ UNCHANGED <<args, fvars, dvars, cvars, hvars, svars>>

\* main: the file does not open or does not decode, and os.Exit(1)
HistoryLoadFails ==
    /\ kPc = "call"
    /\ ~UsageError(args)
    /\ LoadIsFatal(variant, historyFile)
    /\ stdout' = <<>>
    /\ stderr' = IF historyFile.status = "missing"
                 THEN "Error opening history file"
                 ELSE "Error parsing history file"
    /\ exitCode' = 1
    /\ kPc' = "done"
    /\ UNCHANGED <<args, fvars, dvars, cvars, hvars, svars>>

\* history list
HistoryList ==
    /\ kPc = "call"
    /\ ~UsageError(args)
    /\ args[1] = "list"
    /\ ~LoadIsFatal(variant, historyFile)
    /\ stdout' = ListOutput(loadChatHistory(historyFile))
    /\ stderr' = "none"
    /\ exitCode' = 0
    /\ kPc' = "done"
    /\ UNCHANGED <<args, fvars, dvars, cvars, hvars, svars>>

\* history view <key>
HistoryView ==
    /\ kPc = "call"
    /\ ~UsageError(args)
    /\ args[1] = "view"
    /\ ~LoadIsFatal(variant, historyFile)
    /\ stdout' = ViewOutput(loadChatHistory(historyFile), args[2])
    /\ stderr' = "none"
    /\ exitCode' = 0
    /\ kPc' = "done"
    /\ UNCHANGED <<args, fvars, dvars, cvars, hvars, svars>>

HistoryNext ==
    \/ HistoryUsage
    \/ HistoryLoadFails
    \/ HistoryList
    \/ HistoryView

----------------------------------------------------------------------------
(* Properties of the history command (checked under HistorySpec).          *)

\* the sessions the command read from the file
Loaded == loadChatHistory(historyFile)

\* the command ran to its end with this subcommand
Ran(subcmd) ==
    kPc = "done" /\ exitCode = 0 /\ Len(args) >= 1 /\ args[1] = subcmd

\* the places of the sessions stored under the key asked for
Matching == {i \in 1..Len(Loaded) : Loaded[i].session_key = args[2]}

\* the output shows the Messages of session i, one line each, in order
Shows(i) ==
    /\ Len(stdout) = Len(Loaded[i].messages)
    /\ \A j \in 1..Len(stdout) :
          stdout[j] = Capitalise(Chars(Loaded[i].messages[j].role))
                          \o <<":", " ">> \o Loaded[i].messages[j].content

\* C12: history view finds a session by its key, compared as a whole; when
\* no session has the key it writes the not-found line, which no session
\* found can produce, not even one without Messages; when a session has the
\* key, the Messages of one such session are written in stored order.
C12_ViewFindsSessionByKey ==
    Ran("view") =>
        IF Matching = {}
        THEN stdout = <<NotFoundLine>>
        ELSE /\ \E i \in Matching : Shows(i)
             /\ stdout # <<NotFoundLine>>

\* C12 witness: the session asked for is in the file and has no Messages:
\* nothing is written, and the command ends with status 0.
C12_Witness ==
    /\ Ran("view")
    /\ args = <<"view", "k2">>
    /\ Matching # {}
    /\ \A i \in Matching : Loaded[i].messages = <<>>
    /\ Len(Loaded) = 2
    /\ stdout = <<>>

\* the number of characters of a text
CharCount(text) ==
    Cardinality({i \in 1..Len(text) : ~IsContinuation(text[i])})

\* the first n characters of a text, or the text if it has no more
CharPrefix(text, n) ==
    IF CharCount(text) <= n THEN text
    ELSE LET cut == CHOOSE k \in 0..Len(text) :
                       /\ CharCount(SubSeq(text, 1, k)) = n
                       /\ ~IsContinuation(text[k + 1])
         IN  SubSeq(text, 1, cut)

\* C13 as stated: history list writes for each session its key and the
\* content of its first user Message cut by character count: a content of
\* more than 40 characters as its first 40 characters, any other unchanged.
C13_SummaryCutByCharacters ==
    Ran("list") =>
        /\ Len(stdout) = Len(Loaded)
        /\ \A i \in 1..Len(Loaded) :
              stdout[i] = Chars(Loaded[i].session_key) \o <<":", " ">>
                  \o CharPrefix(firstUserMsg(Loaded[i].messages), SummaryBound)

\* C15 as stated: a process that ends with a non-zero status was given a
\* wrong command line; a missing or corrupt history file never ends it so.
C15_OnlyUsageErrorsAreFatal ==
    (kPc = "done" /\ exitCode # 0) => UsageError(args)

----------------------------------------------------------------------------
(* The progress indicator of src/owllama.go: each submitted turn starts a  *)
(* goroutine that writes a tick every 100 ms until it finds spinnerDone    *)
(* closed, then writes the clearing text and returns.  The loop closes     *)
(* spinnerDone when the request returns and goes on without waiting.       *)

Turns == 1..MaxTurns

\* spinnerChars
spinnerChars == <<"|", "/", "-", "\\">>

SpinnerInit ==
    /\ mainPc = "AwaitingInput"
    /\ turn = 0
    /\ spinnerDone = [t \in Turns |-> FALSE]
    /\ spinner = [t \in Turns |-> "unborn"]
    /\ idx = [t \in Turns |-> 0]
    /\ terminal = "You: "
    /\ resultShown = [t \in Turns |-> FALSE]
    /\ lateWrites = {}

SpinnerIdle ==
    /\ mainPc = "Idle"
    /\ turn = 0
    /\ spinnerDone = [t \in Turns |-> FALSE]
    /\ spinner = [t \in Turns |-> "unborn"]
    /\ idx = [t \in Turns |-> 0]
    /\ terminal = "You: "
    /\ resultShown = [t \in Turns |-> FALSE]
    /\ lateWrites = {}

\* a write of the goroutine of turn t, noted if the result is displayed
Late(t, write) ==
    IF resultShown[t] THEN lateWrites \cup {<<t, write>>} ELSE lateWrites

\* a turn is submitted: make(chan struct{}), go func() {...}(), the request
SubmitTurn ==
    /\ mainPc = "AwaitingInput"
    /\ turn < MaxTurns
    /\ turn' = turn + 1
    /\ spinner' = [spinner EXCEPT ![turn'] = "select"]
    /\ mainPc' = "Processing"
    /\ UNCHANGED <<spinnerDone, idx, terminal, resultShown, lateWrites>>
    /\ UNCHANGED <<fvars, dvars, cvars, hvars, kvars>>

\* http.DefaultClient.Do returns; close(spinnerDone)
CloseSpinnerDone ==
    /\ mainPc = "Processing"
    /\ spinnerDone' = [spinnerDone EXCEPT ![turn] = TRUE]
    /\ mainPc' = "Closed"
    /\ UNCHANGED <<turn, spinner, idx, terminal, resultShown, lateWrites>>
    /\ UNCHANGED <<fvars, dvars, cvars, hvars, kvars>>

\* the error report, or the reply, is written; the loop prompts again
ShowResult ==
    /\ mainPc = "Closed"
    /\ \E result \in {"Error contacting Ollama API", "Ollama API error",
                      "Ollama:"} : terminal' = result
    /\ resultShown' = [resultShown EXCEPT ![turn] = TRUE]
    /\ mainPc' = "AwaitingInput"
    /\ UNCHANGED <<turn, spinnerDone, spinner, idx, lateWrites>>
    /\ UNCHANGED <<fvars, dvars, cvars, hvars, kvars>>

\* /exit or EOF: main returns, and the goroutines end with the process
EndProcess ==
    /\ mainPc = "AwaitingInput"
    /\ mainPc' = "Exited"
    /\ UNCHANGED <<turn, spinnerDone, spinner, idx, terminal, resultShown,
                   lateWrites>>
    /\ UNCHANGED <<fvars, dvars, cvars, hvars, kvars>>

\* select: case <-spinnerDone if it is closed, default otherwise
SpinnerSelect ==
    /\ mainPc # "Exited"
    /\ \E t \in Turns :
          /\ spinner[t] = "select"
          /\ spinner' = [spinner EXCEPT
                 ![t] = IF spinnerDone[t] THEN "clearing" ELSE "ticking"]
    /\ UNCHANGED <<mainPc, turn, spinnerDone, idx, terminal, resultShown,
                   lateWrites>>
    /\ UNCHANGED <<fvars, dvars, cvars, hvars, kvars>>

\* fmt.Printf("\rProcessing... %c", ...); idx++
SpinnerTick ==
    /\ mainPc # "Exited"
    /\ \E t \in Turns :
          /\ spinner[t] = "ticking"
          /\ terminal' = "Processing... "
          /\ idx' = [idx EXCEPT ![t] = (idx[t] + 1) % Len(spinnerChars)]
          /\ lateWrites' = Late(t, "tick")
          /\ spinner' = [spinner EXCEPT ![t] = "sleeping"]
    /\ UNCHANGED <<mainPc, turn, spinnerDone, resultShown>>
    /\ UNCHANGED <<fvars, dvars, cvars, hvars, kvars>>

\* time.Sleep(100 * time.Millisecond) is over
SpinnerWake ==
    /\ mainPc # "Exited"
    /\ \E t \in Turns :
          /\ spinner[t] = "sleeping"
          /\ spinner' = [spinner EXCEPT ![t] = "select"]
    /\ UNCHANGED <<mainPc, turn, spinnerDone, idx, terminal, resultShown,
                   lateWrites>>
    /\ UNCHANGED <<fvars, dvars, cvars, hvars, kvars>>

\* fmt.Print("\r           \r"); return
SpinnerClear ==
    /\ mainPc # "Exited"
    /\ \E t \in Turns :
          /\ spinner[t] = "clearing"
          /\ terminal' = "cleared"
          /\ lateWrites' = Late(t, "clear")
          /\ spinner' = [spinner EXCEPT ![t] = "returned"]
    /\ UNCHANGED <<mainPc, turn, spinnerDone, idx, resultShown>>
    /\ UNCHANGED <<fvars, dvars, cvars, hvars, kvars>>

SpinnerNext ==
    \/ SubmitTurn
    \/ CloseSpinnerDone
    \/ ShowResult
    \/ EndProcess
    \/ SpinnerSelect
    \/ SpinnerTick
    \/ SpinnerWake
    \/ SpinnerClear

----------------------------------------------------------------------------
(* Properties of the progress indicator (checked under SpinnerSpec).       *)

\* C19 as stated: in no interleaving does the goroutine of a turn write a
\* tick or its clearing text after the loop has displayed the result of
\* that turn.
C19_NoWriteAfterResult == lateWrites = {}

----------------------------------------------------------------------------
(* Properties of the save at the session end (checked under Spec).         *)

\* the session was to be saved, and the file does not hold the history
SaveFailed ==
    /\ pc = "Terminated"
    /\ userInputFound(session)
    /\ historyFile # ValidFile(chatHistory)

\* C21 as stated: when the save at the session end fails, at opening the
\* file or while encoding and writing its content, the failure is reported
\* to the user, and the session still ends in the ordinary way.
C21_WriteFailureReported ==
    SaveFailed => reported = "Error writing to history file"

----------------------------------------------------------------------------
(* Properties of the filter on malformed markup (checked under FilterSpec). *)

\* a start marker with no end marker, an end marker with no start marker,
\* or the first end marker before the first start marker
Malformed(text) ==
    LET start == Index(text, ThinkStart)
        end   == Index(text, ThinkEnd)
    IN  \/ start # -1 /\ end = -1
        \/ start = -1 /\ end # -1
        \/ start # -1 /\ end # -1 /\ end < start

\* C22: for a model of the reasoning family, a text whose markup is
\* malformed is returned as it is; and whatever the input, the text
\* returned is one on which the loop stopped: it holds no start marker
\* followed by an end marker, and what markup is left in it stays.
C22_MalformedMarkupLeftInPlace ==
    (fPc = "done" /\ AppliesTo(fModel)) =>
        /\ Malformed(fInput) => fOut = fInput
        /\ ~MatchedPair(Index(fOut, ThinkStart), Index(fOut, ThinkEnd))
        /\ filterQwenThink(fModel, fOut) = fOut

\* C22 witness: "</think>A<think>" was filtered for qwen3:8b and came back
\* unchanged.
C22_Witness ==
    /\ fPc = "done"
    /\ fModel = Qwen3 \o <<":", "8", "b">>
    /\ fInput = ThinkEnd \o <<"A">> \o ThinkStart
    /\ Malformed(fInput)
    /\ fOut = fInput

----------------------------------------------------------------------------
(* Termination of the filter (checked under FilterLoopSpec).               *)

\* C23: the filter terminates on every text: every pass of the loop that
\* removes a block leaves the text strictly shorter, the number of such
\* passes never exceeds the length of the text handed in, and the filter
\* returns; so also for nested, repeated and overlapping markers.
C23_FilterTerminates ==
    /\ [][fIter' # fIter => Len(fText') < Len(fText)]_vars
    /\ [](fIter + Len(fText) =< Len(fInput))
    /\ [](fIter =< Len(fInput))
    /\ <>(fPc = "done")

\* C23 witness: "<think></think>A<think></think>" was filtered for qwen3 in
\* two removing passes and the filter returned.
C23_Witness ==
    /\ fPc = "done"
    /\ fModel = Qwen3
    /\ fInput = ThinkStart \o ThinkEnd \o <<"A">> \o ThinkStart \o ThinkEnd
    /\ fIter = 2
    /\ Len(fText) < Len(fInput)
    /\ fOut = fText

----------------------------------------------------------------------------
(* The specifications.                                                     *)

ChatInit == Init /\ FilterIdle /\ DecodeIdle /\ HistoryIdle /\ SpinnerIdle
Spec == ChatInit /\ [][Next]_vars

FilterNext == ApplyFilter
FilterSpecInit ==
    FilterInit /\ DecodeIdle /\ ChatIdle /\ HistoryIdle /\ SpinnerIdle
FilterSpec == FilterSpecInit /\ [][FilterNext]_vars

\* the filter is sequential code: a pass that can run does run
FilterLoopSpecInit ==
    FilterLoopInit /\ DecodeIdle /\ ChatIdle /\ HistoryIdle /\ SpinnerIdle
FilterLoopSpec ==
    FilterLoopSpecInit /\ [][FilterLoopNext]_vars /\ WF_vars(FilterLoopNext)

DecodeNext == ApplyDecode
DecodeSpecInit ==
    DecodeInit /\ FilterIdle /\ ChatIdle /\ HistoryIdle /\ SpinnerIdle
DecodeSpec == DecodeSpecInit /\ [][DecodeNext]_vars

HistorySpecInit == HistoryInit /\ FilterIdle /\ DecodeIdle /\ SpinnerIdle
HistorySpec == HistorySpecInit /\ [][HistoryNext]_vars

SpinnerSpecInit ==
    SpinnerInit /\ FilterIdle /\ DecodeIdle /\ ChatIdle /\ HistoryIdle
SpinnerSpec == SpinnerSpecInit /\ [][SpinnerNext]_vars

====
